---- MODULE Spec2Model ----
(***************************************************************************)
(* Model of SSGPToolbox/Preparators/Sentinel3/S3_L2_LST.py: the class      *)
(* S3_L2_LST that converts a zipped Sentinel-3 LST granule into a GeoTIFF  *)
(* or an .npy dump.                                                        *)
(*                                                                         *)
(* Two families of specifications share the module.                        *)
(*   - SpecUtm, SpecMask, SpecWindow: the array computations of __init__   *)
(*     and __preparation (projection code, flag decoding, masking, row     *)
(*     windowing) applied to inputs drawn from bounded sets.               *)
(*   - Spec, SpecSeq: the file-system life cycle of archive_to_geotiff and *)
(*     archive_to_npy on two instances, interleaved (Spec) or called one   *)
(*     after the other (SpecSeq).                                          *)
(*                                                                         *)
(* Degrees, kelvins and sentinels are integers; a centroid (a + b) / 2 is  *)
(* kept exactly as the pair (a + b, 2), so no rounding is introduced.      *)
(***************************************************************************)
EXTENDS Integers, Sequences, FiniteSets, TLC

VARIABLES
    \* ---- array pipeline of one instance (SpecUtm, SpecMask, SpecWindow)
    extent,               \* self.extent
    utm_code,             \* self.utm_code
    nc,                   \* the NetCDF variables read from the archive
    biomes_instead_lst,   \* self.biomes_instead_lst
    prep,                 \* the arrays __preparation computes
    stage,                \* "new", "constructed", "prepared"
    \* ---- file-system life cycle of the instances (Spec, SpecSeq)
    self,                 \* instance -> its fields
    zip,                  \* archive -> the member suffixes it holds
    dirs,                 \* the directories that exist
    files,                \* file path -> content, for the files that exist
    pc,                   \* instance -> position in the running call
    local,                \* instance -> locals and outcome of the running call
    calls,                \* instance -> number of calls that have ended
    foreign               \* accesses of one run to scratch files of another

arrayVars == <<extent, utm_code, nc, biomes_instead_lst, prep, stage>>
fsVars    == <<self, zip, dirs, files, pc, local, calls, foreign>>
vars      == <<extent, utm_code, nc, biomes_instead_lst, prep, stage,
               self, zip, dirs, files, pc, local, calls, foreign>>

\* Python's None and a value that may be None: the empty and the one-element
\* tuple
None == <<>>
Some(x) == <<x>>
Value(o) == o[1]

(***************************************************************************)
(* key_values: a Python dict, modelled as a function on its keys.          *)
(***************************************************************************)
\* line 36: the default value of the key_values parameter
DefaultKeyValues ==
    [k \in {"gap", "skip", "NoData"} |->
        CASE k = "gap" -> -100 [] k = "skip" -> -200 [] OTHER -> -32768]

\* line 34: the dictionary the comment documents, with a caller's sentinels
DocumentedKeyValues ==
    [k \in {"gap", "skip", "noData"} |->
        CASE k = "gap" -> -100 [] k = "skip" -> -200 [] OTHER -> -9999]

\* a caller's dictionary spelled like the default of line 36
CapitalKeyValues ==
    [k \in {"gap", "skip", "NoData"} |->
        CASE k = "gap" -> -100 [] k = "skip" -> -200 [] OTHER -> -9999]

\* dict.get(key): the value, or None when the key is absent
Get(d, k) == IF k \in DOMAIN d THEN Some(d[k]) ELSE None

(***************************************************************************)
(* __get_utm_code_from_extent, lines 66-81.                                *)
(***************************************************************************)
\* Python's int(): truncation toward zero of the fraction n / d (d > 0)
IntTrunc(n, d) == IF n >= 0 THEN n \div d ELSE -((-n) \div d)

\* Python's % on numbers: the result has the sign of the (positive) divisor
PyMod(n, m) == n - m * (n \div m)

\* lines 72-81 as they would read with the hemisphere test y_centroid <= 0
get_utm_code_from_extent_le(ext) ==
    LET y2   == ext.minY + ext.maxY
        base == IF y2 <= 0 THEN 32700 ELSE 32600
        x2   == ext.minX + ext.maxX
        zone == IntTrunc(PyMod(x2 + 360, 720), 12) + 1
    IN  base + zone

\* y_centroid = y2 / 2 and x_centroid = x2 / 2, so
\* (x_centroid + 180) / 6.0 = (x2 + 360) / 12, and its % 60 is
\* ((x2 + 360) % 720) / 12, which int() truncates.
get_utm_code_from_extent(ext) ==
    LET y2   == ext.minY + ext.maxY
        base == IF y2 < 0 THEN 32700 ELSE 32600
        x2   == ext.minX + ext.maxX
        zone == IntTrunc(PyMod(x2 + 360, 720), 12) + 1
    IN  base + zone

(***************************************************************************)
(* Flag decoding, lines 116-130.                                           *)
(***************************************************************************)
CONFIDENCE_CLOUD_BIT == 16384
BAYES_CLOUD_BIT == 2

\* numpy's & on unsigned integers
RECURSIVE BitAnd(_, _)
BitAnd(a, b) ==
    IF a = 0 \/ b = 0 THEN 0
    ELSE (a % 2) * (b % 2) + 2 * BitAnd(a \div 2, b \div 2)

\* lines 122-124: ['0'] * 16384 followed by 'A'
bits_map_conf == [i \in 1..(CONFIDENCE_CLOUD_BIT + 1) |->
                    IF i = CONFIDENCE_CLOUD_BIT + 1 THEN "A" ELSE "0"]

\* line 128
bits_map_bayes == <<"O", "O", "A">>

\* numpy indexing table[i] with a 0-based index; negative indices count from
\* the end, anything else raises IndexError
NpIndex(table, i) ==
    IF 0 <= i /\ i < Len(table) THEN table[i + 1]
    ELSE IF -Len(table) <= i /\ i < 0 THEN table[Len(table) + i + 1]
    ELSE "IndexError"

\* line 126 over a table one entry short, with 'A' at index 16383
decode_conf_short(c) ==
    NpIndex([i \in 1..CONFIDENCE_CLOUD_BIT |->
                IF i = CONFIDENCE_CLOUD_BIT THEN "A" ELSE "0"],
            BitAnd(c, CONFIDENCE_CLOUD_BIT))

\* line 126, for one pixel
decode_conf(c) == NpIndex(bits_map_conf, BitAnd(c, CONFIDENCE_CLOUD_BIT))

\* line 130, for one pixel
decode_bayes(b) == NpIndex(bits_map_bayes, BitAnd(b, BAYES_CLOUD_BIT))

\* lines 126 and 130 over the whole grid (numpy's vectorised indexing)
clouds_conf(g)  == [i \in DOMAIN g |-> [j \in DOMAIN g[i] |-> decode_conf(g[i][j])]]
clouds_bayes(g) == [i \in DOMAIN g |-> [j \in DOMAIN g[i] |-> decode_bayes(g[i][j])]]

(***************************************************************************)
(* Mask compositing, lines 143-156.                                        *)
(***************************************************************************)
\* m[cond == v0] = v : boolean-mask assignment
MaskAssign(m, cond, v0, v) ==
    [i \in DOMAIN m |-> [j \in DOMAIN m[i] |->
        IF cond[i][j] = v0 THEN v ELSE m[i][j]]]

\* lines 146-149 in the other order: water first, clouds afterwards
mask_lst_water_first(LST, cconf, cbayes, biome, kv) ==
    LET m0 == MaskAssign(LST, biome, 0, Value(Get(kv, "skip")))
        m1 == MaskAssign(m0, cconf, "A", Value(Get(kv, "gap")))
    IN  MaskAssign(m1, cbayes, "A", Value(Get(kv, "gap")))

\* lines 146-149
mask_lst(LST, cconf, cbayes, biome, kv) ==
    LET m1 == MaskAssign(LST, cconf, "A", Value(Get(kv, "gap")))
        m2 == MaskAssign(m1, cbayes, "A", Value(Get(kv, "gap")))
    IN  MaskAssign(m2, biome, 0, Value(Get(kv, "skip")))

\* lines 152-156 as they would read if the masked matrix were taken in both modes
select_div_masked(flag, biome, LST_matrix) == LST_matrix

\* lines 152-156: the grid that goes on to the flip
select_div(flag, biome, LST_matrix) == IF flag = TRUE THEN biome ELSE LST_matrix

(***************************************************************************)
(* Row windowing, lines 157-172.                                           *)
(***************************************************************************)
MARGIN == 10

\* np.flip(g, axis = 0)
Flip(g) == [i \in 1..Len(g) |-> g[Len(g) + 1 - i]]

\* np.unique(np.argwhere(lats > border)[:, 0]): the sorted row indices
\* (0-based) of the rows holding at least one pixel above the border
RECURSIVE RowsAbove(_, _, _)
RowsAbove(g, border, i) ==
    IF i > Len(g) THEN <<>>
    ELSE (IF \E j \in DOMAIN g[i] : g[i][j] > border THEN <<i - 1>> ELSE <<>>)
         \o RowsAbove(g, border, i + 1)

\* np.unique(np.argwhere(lats < border)[:, 0])
RECURSIVE RowsBelow(_, _, _)
RowsBelow(g, border, i) ==
    IF i > Len(g) THEN <<>>
    ELSE (IF \E j \in DOMAIN g[i] : g[i][j] < border THEN <<i - 1>> ELSE <<>>)
         \o RowsBelow(g, border, i + 1)

\* np.delete(g, idx, axis = 0): the rows whose 0-based index is not in idx
RECURSIVE NpDelete(_, _, _)
NpDelete(g, idx, i) ==
    IF i > Len(g) THEN <<>>
    ELSE (IF \E k \in DOMAIN idx : idx[k] = i - 1 THEN <<>> ELSE <<g[i]>>)
         \o NpDelete(g, idx, i + 1)

\* lines 162-168 without the rows below the lower border
wrong_rows_upper_only(lats, ext) ==
    LET Higher_border == ext.maxY + MARGIN
    IN  RowsAbove(lats, Higher_border, 1)

\* lines 162-168
wrong_rows(lats, ext) ==
    LET Higher_border == ext.maxY + MARGIN
        Lower_border  == ext.minY - MARGIN
        wrong_raws_1 == RowsAbove(lats, Higher_border, 1)
        wrong_raws_2 == RowsBelow(lats, Lower_border, 1)
    IN  wrong_raws_1 \o wrong_raws_2

\* the array part of __preparation, lines 116-172
preparation_arrays(n, ext, kv, flag) ==
    LET clouds_conf_in  == clouds_conf(n.confidence_in)
        clouds_bayes_in == clouds_bayes(n.bayes_in)
        LST_matrix == mask_lst(n.LST, clouds_conf_in, clouds_bayes_in, n.biome, kv)
        work  == select_div(flag, n.biome, LST_matrix)
        div0  == Flip(work)
        lats0 == Flip(n.latitude_in)
        lons0 == Flip(n.longitude_in)
        wrong_raws == wrong_rows(lats0, ext)
    IN  [clouds_conf_in  |-> clouds_conf_in,
         clouds_bayes_in |-> clouds_bayes_in,
         LST_matrix      |-> LST_matrix,
         work            |-> work,
         wrong_raws      |-> wrong_raws,
         div  |-> NpDelete(div0, wrong_raws, 1),
         lats |-> NpDelete(lats0, wrong_raws, 1),
         lons |-> NpDelete(lons0, wrong_raws, 1)]

(***************************************************************************)
(* Inputs of the array pipeline.                                           *)
(***************************************************************************)
Rows == 3
Cols == 2

Pixels == (1..Rows) \X (1..Cols)

\* the extent of the scenario: 30..40 E, 50..55 N
ScenarioExtent == [minX |-> 30, minY |-> 50, maxX |-> 40, maxY |-> 55]

\* a southern extent
SouthExtent == [minX |-> -70, minY |-> -20, maxX |-> -60, maxY |-> -10]

LonValues == {-186, -180, -174, -7, -6, -1, 0, 1, 5, 6, 30, 40, 174, 180, 186}
LatValues == {-90, -55, -50, -10, -1, 0, 1, 10, 50, 55, 90}

Extents ==
    {[minX |-> x1, minY |-> y1, maxX |-> x2, maxY |-> y2] :
        x1 \in LonValues, x2 \in LonValues, y1 \in LatValues, y2 \in LatValues}

SaneExtents == {e \in Extents : e.minX < e.maxX /\ e.minY < e.maxY}

\* a constant grid, and a grid whose pixels are pairwise different
ConstGrid(v) == [i \in 1..Rows |-> [j \in 1..Cols |-> v]]
IdGrid(base) == [i \in 1..Rows |-> [j \in 1..Cols |-> base + Cols * (i - 1) + j]]

\* g with pixel p set to v
WithPixel(g, p, v) ==
    [i \in 1..Rows |-> [j \in 1..Cols |-> IF <<i, j>> = p THEN v ELSE g[i][j]]]

\* a cloud-free land swath lying inside the window of ScenarioExtent
ClearNc ==
    [confidence_in |-> ConstGrid(0),
     bayes_in      |-> ConstGrid(0),
     biome         |-> ConstGrid(1),
     LST           |-> IdGrid(270),
     latitude_in   |-> ConstGrid(52),
     longitude_in  |-> IdGrid(30)]

\* flag words: uint16 confidence_in, uint8 bayes_in; biome classes
ConfValues  == {0, 1, 16383, 16384, 16385, 32768, 49152, 65535}
BayesValues == {0, 1, 2, 3, 4, 6, 253, 255}
BiomeValues == {0, 1, 2, 26}

\* what the pixels other than the probed one hold: <<confidence, bayes, biome>>
Backgrounds == {<<0, 0, 1>>, <<16384, 2, 0>>, <<1, 2, 2>>}

\* a swath with one background and one probed pixel
MaskNc(bg, p, c, b, bi) ==
    [ClearNc EXCEPT
        !.confidence_in = WithPixel(ConstGrid(bg[1]), p, c),
        !.bayes_in      = WithPixel(ConstGrid(bg[2]), p, b),
        !.biome         = WithPixel(ConstGrid(bg[3]), p, bi)]

\* the latitude rows tried by the windowing: the row lies inside the window
\* but for column p (and its neighbour q for "both")
RowKinds == {"in", "edge_hi", "edge_lo", "above", "below", "both",
             "all_above", "all_below"}

LatRow(kind, ext, p) ==
    LET hi  == ext.maxY + MARGIN
        lo  == ext.minY - MARGIN
        mid == ext.minY + 1
        q   == (p % Cols) + 1
    IN  [j \in 1..Cols |->
            CASE kind = "in"        -> mid
              [] kind = "edge_hi"   -> IF j = p THEN hi ELSE mid
              [] kind = "edge_lo"   -> IF j = p THEN lo ELSE mid
              [] kind = "above"     -> IF j = p THEN hi + 1 ELSE mid
              [] kind = "below"     -> IF j = p THEN lo - 1 ELSE mid
              [] kind = "both"      -> IF j = p THEN hi + 1
                                       ELSE IF j = q THEN lo - 1 ELSE mid
              [] kind = "all_above" -> hi + 1
              [] OTHER              -> lo - 1]

WindowNc(kinds, ext, p) ==
    [ClearNc EXCEPT !.latitude_in = [i \in 1..Rows |-> LatRow(kinds[i], ext, p)]]

NoPrep == [clouds_conf_in |-> <<>>, clouds_bayes_in |-> <<>>, LST_matrix |-> <<>>,
           work |-> <<>>, wrong_raws |-> <<>>, div |-> <<>>, lats |-> <<>>,
           lons |-> <<>>]

(***************************************************************************)
(* The array pipeline as a state machine.                                  *)
(***************************************************************************)
\* the life-cycle variables while only the arrays are studied
FsOff ==
    /\ self = <<>> /\ zip = <<>> /\ dirs = {} /\ files = <<>>
    /\ pc = <<>> /\ local = <<>> /\ calls = <<>> /\ foreign = {}

ArraysNew ==
    /\ utm_code = None
    /\ biomes_instead_lst = None
    /\ prep = NoPrep
    /\ stage = "new"

InitUtm ==
    /\ extent \in SaneExtents
    /\ nc = ClearNc
    /\ ArraysNew /\ FsOff

InitMask ==
    /\ extent = ScenarioExtent
    /\ \E bg \in Backgrounds, p \in Pixels, c \in ConfValues,
          b \in BayesValues, bi \in BiomeValues : nc = MaskNc(bg, p, c, b, bi)
    /\ ArraysNew /\ FsOff

InitWindow ==
    /\ extent \in {ScenarioExtent, SouthExtent}
    /\ \E kinds \in [1..Rows -> RowKinds], p \in 1..Cols :
          nc = WindowNc(kinds, extent, p)
    /\ ArraysNew /\ FsOff

\* __init__, lines 36-61, for the fields the arrays use
construct ==
    /\ stage = "new"
    /\ utm_code' = get_utm_code_from_extent(extent)
    /\ stage' = "constructed"
    /\ UNCHANGED <<extent, nc, biomes_instead_lst, prep>>
    /\ UNCHANGED fsVars

\* archive_to_geotiff / archive_to_npy up to the end of the array part of
\* __preparation (lines 241, 261 and 116-172), with the default key_values
prepare(flag) ==
    /\ stage \in {"constructed", "prepared"}
    /\ biomes_instead_lst' = flag
    /\ prep' = preparation_arrays(nc, extent, DefaultKeyValues, flag)
    /\ stage' = "prepared"
    /\ UNCHANGED <<extent, utm_code, nc>>
    /\ UNCHANGED fsVars

NextArrays == construct \/ \E flag \in BOOLEAN : prepare(flag)

SpecUtm    == InitUtm /\ [][NextArrays]_vars
SpecMask   == InitMask /\ [][NextArrays]_vars
SpecWindow == InitWindow /\ [][NextArrays]_vars

(***************************************************************************)
(* Properties of the array pipeline.                                       *)
(***************************************************************************)
Pow2(n) == IF n = 14 THEN 16384 ELSE IF n = 1 THEN 2 ELSE 1

\* bit n of the unsigned word v, read by division
BitSet(v, n) == (v \div Pow2(n)) % 2 = 1

CloudFlagged(p) ==
    \/ BitSet(nc.confidence_in[p[1]][p[2]], 14)
    \/ BitSet(nc.bayes_in[p[1]][p[2]], 1)

At(g, p) == g[p[1]][p[2]]

\* the zone of the centroid longitude x2 / 2: the z in 1..60 whose 6-degree
\* band [6(z-1), 6z) holds (x2 / 2 + 180) reduced into [0, 360)
ZoneByFloor(x2) ==
    CHOOSE z \in 1..60 : \E k \in -1..1 :
        /\ 12 * (z - 1) <= x2 + 360 - 720 * k
        /\ x2 + 360 - 720 * k < 12 * z

\* the hemisphere base plus the zone of the centroid
CodeByFormula(ext) ==
    (IF ext.minY + ext.maxY < 0 THEN 32700 ELSE 32600)
    + ZoneByFloor(ext.minX + ext.maxX)

\* C6 as stated: the projection code is the hemisphere base (32700 when the
\* centroid latitude is below 0, else 32600, 0 included) plus the zone
\* floor(((centroidLon + 180) / 6) mod 60) + 1, and the extent
\* {minX: 30, minY: 50, maxX: 40, maxY: 55} gives 32637.
C6_UtmCodeAsStated ==
    stage # "new" =>
        /\ utm_code = CodeByFormula(extent)
        /\ (extent = ScenarioExtent => utm_code = 32637)

\* C6 as amended: the same formula, which depends on the centroid only, and
\* the extent {minX: 30, minY: 50, maxX: 40, maxY: 55} (centroid longitude
\* 35 E, floor(215 / 6) + 1 = 36) gives 32636.
C6_UtmCode ==
    stage # "new" =>
        /\ utm_code = CodeByFormula(extent)
        /\ (extent = ScenarioExtent => utm_code = 32636)

\* the scenario extent constructed: centroid 35 E, 52.5 N, zone 36 north
C6_Witness ==
    /\ stage = "constructed"
    /\ extent = ScenarioExtent
    /\ utm_code = 32636

\* C7: the lookup tables mark a pixel cloudy by confidence iff bit 14 of its
\* confidence word is set and cloudy by Bayes iff bit 1 of its Bayes word is
\* set, whatever the other bits, and no lookup leaves its table.
C7_FlagDecode ==
    stage = "prepared" =>
        \A p \in Pixels :
            /\ At(prep.clouds_conf_in, p) # "IndexError"
            /\ At(prep.clouds_bayes_in, p) # "IndexError"
            /\ (At(prep.clouds_conf_in, p) = "A") <=> BitSet(At(nc.confidence_in, p), 14)
            /\ (At(prep.clouds_bayes_in, p) = "A") <=> BitSet(At(nc.bayes_in, p), 1)

\* a word with bit 14 and other bits set decoded as cloud next to a Bayes word
\* with every bit but bit 1 set decoded as clear
C7_Witness ==
    /\ stage = "prepared"
    /\ \E p \in Pixels :
        /\ At(nc.confidence_in, p) = 65535
        /\ At(prep.clouds_conf_in, p) = "A"
        /\ At(nc.bayes_in, p) = 253
        /\ At(prep.clouds_bayes_in, p) = "O"

\* what the spec's precedence gives for pixel p of a grid whose raw value is raw
Precedence(p, raw) ==
    IF At(nc.biome, p) = 0 THEN DefaultKeyValues["skip"]
    ELSE IF CloudFlagged(p) THEN DefaultKeyValues["gap"]
    ELSE raw

\* C1: in LST mode every pixel of the composited grid is skip over open water
\* (biome 0), else gap where a cloud flag is set, else the original LST value.
C1_MaskLst ==
    (stage = "prepared" /\ biomes_instead_lst = FALSE) =>
        \A p \in Pixels : At(prep.work, p) = Precedence(p, At(nc.LST, p))

\* a pixel flagged cloud and water ends as skip, beside an untouched pixel
C1_Witness ==
    /\ stage = "prepared" /\ biomes_instead_lst = FALSE
    /\ \E p \in Pixels :
        /\ At(nc.biome, p) = 0 /\ CloudFlagged(p)
        /\ At(prep.work, p) = -200
    /\ \E p \in Pixels :
        /\ At(nc.biome, p) # 0 /\ ~CloudFlagged(p)
        /\ At(prep.work, p) = At(nc.LST, p)

\* C2 as stated: in biome mode the working grid is the biome grid masked with
\* the same precedence (gap on cloud-flagged pixels, skip on open water).
C2_BiomeMasked ==
    (stage = "prepared" /\ biomes_instead_lst = TRUE) =>
        \A p \in Pixels : At(prep.work, p) = Precedence(p, At(nc.biome, p))

\* C2 as amended: in biome mode the working grid is the biome grid as read,
\* no pixel of it is masked; the masks are written into the LST matrix only.
C2_BiomeRaw ==
    (stage = "prepared" /\ biomes_instead_lst = TRUE) =>
        /\ prep.work = nc.biome
        /\ \A p \in Pixels :
              At(prep.LST_matrix, p) = Precedence(p, At(nc.LST, p))

\* biome mode with a cloud-flagged land pixel that keeps its biome class
C2_Witness ==
    /\ stage = "prepared" /\ biomes_instead_lst = TRUE
    /\ \E p \in Pixels :
        /\ At(nc.biome, p) = 26 /\ CloudFlagged(p)
        /\ At(prep.work, p) = 26
        /\ At(prep.LST_matrix, p) = -100

InWindow(row) ==
    \A j \in DOMAIN row :
        /\ row[j] >= extent.minY - MARGIN
        /\ row[j] <= extent.maxY + MARGIN

\* the row of the flipped swath from which row k of the output was taken
\* (the longitudes of the inputs are pairwise different)
SourceRow(k) == CHOOSE i \in 1..Rows : Flip(nc.longitude_in)[i] = prep.lons[k]

\* C5: after windowing the three grids hold exactly the rows of the flipped
\* grids whose latitudes all lie in [minY - 10, maxY + 10], in their order,
\* and have the same number of rows.
C5_Window ==
    stage = "prepared" =>
        LET Flat == Flip(nc.latitude_in)
            Flon == Flip(nc.longitude_in)
            Fdiv == Flip(prep.work)
            n    == Len(prep.lats)
        IN  /\ Len(prep.div) = n /\ Len(prep.lons) = n
            /\ n = Cardinality({i \in 1..Rows : InWindow(Flat[i])})
            /\ \A k \in 1..n :
                  /\ InWindow(prep.lats[k])
                  /\ \E i \in 1..Rows : Flon[i] = prep.lons[k]
                  /\ prep.lats[k] = Flat[SourceRow(k)]
                  /\ prep.div[k] = Fdiv[SourceRow(k)]
            /\ \A k1, k2 \in 1..n : k1 < k2 => SourceRow(k1) < SourceRow(k2)
            /\ \A i \in 1..Rows :
                  InWindow(Flat[i]) => \E k \in 1..n : SourceRow(k) = i

\* a swath with a row disqualified by both borders (listed twice in the
\* indices to delete), a row touching a border that is kept, and output rows
\* that are fewer than the input rows
C5_Witness ==
    /\ stage = "prepared"
    /\ \E k1, k2 \in DOMAIN prep.wrong_raws :
          k1 # k2 /\ prep.wrong_raws[k1] = prep.wrong_raws[k2]
    /\ \E k \in DOMAIN prep.lats, j \in 1..Cols :
          prep.lats[k][j] = extent.maxY + MARGIN
    /\ Len(prep.div) = Rows - 1

(***************************************************************************)
(* The file system and the archives of the life cycle.                     *)
(***************************************************************************)
Instances == {"a", "b"}

\* calls made one after the other on an instance
MaxCalls == 3

\* calls made on each instance when the instances run in parallel
MaxParallelCalls == 1

\* An archive name is kept as its slices [0:3], [3:16], [16:31] and [31:].
ArchiveName(sat, stamp) == <<sat, "_SL_2_LST____", stamp, "_NT.zip">>

\* a path is the sequence of its components, a component the sequence of the
\* pieces its name is concatenated from
Name(x) == <<x>>

\* two archives in one directory and one in another
Archive1 == [dir |-> <<Name("d1")>>, name |-> ArchiveName("S3A", "20190101T080000")]
Archive2 == [dir |-> <<Name("d1")>>, name |-> ArchiveName("S3B", "20190102T090000")]
Archive3 == [dir |-> <<Name("d2")>>, name |-> ArchiveName("S3A", "20190103T100000")]
Archives == {Archive1, Archive2, Archive3}

\* lines 103-114: the member suffixes looked for
Suffixes == {"geodetic_in.nc", "LST_in.nc", "flags_in.nc", "LST_ancillary_ds.nc"}

\* complete archives and archives lacking exactly one member
MemberSets == {Suffixes} \cup {Suffixes \ {m} : m \in Suffixes}

KeyValueChoices == {DefaultKeyValues, DocumentedKeyValues, CapitalKeyValues}

SavePaths == {<<Name("out")>>}

\* path p lies under directory d
Under(p, d) == Len(p) > Len(d) /\ SubSeq(p, 1, Len(d)) = d

\* what a file holds: who wrote it, whose data it carries, which grid, and
\* the no-data value of a warped raster
Content(by, src, grid, nodata) ==
    [by |-> by, src |-> src, grid |-> grid, nodata |-> nodata]

NoLocal ==
    [mode |-> None, flag |-> None, save_path |-> <<>>, fault |-> None,
     warpOptions |-> None, imageVRTPath |-> None, raster |-> None,
     wrote |-> {}, status |-> "none", err |-> None]

\* an instance is inside a call
Running(r) == pc[r] \in {"warp", "save", "rmtree"}

(***************************************************************************)
(* __init__, lines 36-61.                                                  *)
(***************************************************************************)
\* lines 43-44: os.path.join(os.path.split(file_path)[0], 'temporary')
temporary_path_of(file_path) == file_path.dir \o <<Name("temporary")>>

\* line 50: archive_name[16:31]
datetime_of(file_path) == file_path.name[3]

\* line 51: archive_name[0:3]
satellite_of(file_path) == file_path.name[1]

\* the instance __init__ leaves behind; biomes_instead_lst is not set before
\* the first call
S3_L2_LST(file_path, extent_, key_values) ==
    [file_path |-> file_path,
     extent |-> extent_,
     key_values |-> key_values,
     temporary_path |-> temporary_path_of(file_path),
     utm_code |-> get_utm_code_from_extent(extent_),
     datetime |-> datetime_of(file_path),
     satellite |-> satellite_of(file_path),
     biomes_instead_lst |-> None]

(***************************************************************************)
(* __preparation, lines 93-234: its effects on the file system.            *)
(***************************************************************************)
\* the points at which the environment makes the preparation raise
PrepFaults == {"none", "open", "extract", "decode", "raster"}

\* lines 116, 132, 137, 140: the order in which the locals bound by the
\* extraction loop are first read
ReferenceOrder ==
    <<[var |-> "flags_in", suffix |-> "flags_in.nc"],
      [var |-> "geodetic_in", suffix |-> "geodetic_in.nc"],
      [var |-> "LST_in", suffix |-> "LST_in.nc"],
      [var |-> "LST_ancillary_ds", suffix |-> "LST_ancillary_ds.nc"]>>

\* the local that is read unbound first, or None when every member is there
FirstUnbound(members) ==
    IF \A k \in 1..4 : ReferenceOrder[k].suffix \in members THEN None
    ELSE LET k == CHOOSE k \in 1..4 :
                    /\ ReferenceOrder[k].suffix \notin members
                    /\ \A h \in 1..(k - 1) : ReferenceOrder[h].suffix \in members
         IN  Some(ReferenceOrder[k].var)

\* how __preparation ends: None, or the exception it raises (a decode or
\* raster fault is taken to strike after the locals have been read)
prep_error(members, fault) ==
    CASE fault = "open"    -> Some([type |-> "BadZipFile", names |-> None])
      [] fault = "extract" -> Some([type |-> "OSError", names |-> None])
      [] FirstUnbound(members) # None ->
            Some([type |-> "UnboundLocalError", names |-> FirstUnbound(members)])
      [] fault = "decode"  -> Some([type |-> "KeyError", names |-> None])
      [] fault = "raster"  -> Some([type |-> "RuntimeError", names |-> None])
      [] OTHER             -> None

\* lines 177-180
latPath(s)      == s.temporary_path \o <<Name("lat.tif")>>
lonPath(s)      == s.temporary_path \o <<Name("lon.tif")>>
imagePath(s)    == s.temporary_path \o <<Name("image.tif")>>
imageVRTPath(s) == s.temporary_path \o <<Name("image.vrt")>>

\* the files __preparation has written when it ends: the extracted members
\* (lines 102-114), then lat.tif, lon.tif, image.tif, image.vrt (183-200)
prep_writes(r, s, members, fault) ==
    LET tp == s.temporary_path
        extracted == IF fault \in {"open", "extract"} THEN {}
                     ELSE {tp \o <<Name(m)>> : m \in members}
        rasters ==
            IF prep_error(members, fault) = None
            THEN {latPath(s), lonPath(s), imagePath(s), imageVRTPath(s)}
            ELSE IF Value(prep_error(members, fault)).type = "RuntimeError"
            THEN {latPath(s)}
            ELSE {}
        grid == IF s.biomes_instead_lst = TRUE THEN "biome" ELSE "LST"
    IN  [p \in extracted \cup rasters |->
            IF p = imagePath(s) THEN Content(r, r, grid, None)
            ELSE Content(r, r, "aux", None)]

\* lines 224-226: the options handed to the warp engine
warp_options(s) == [dstNodata |-> Get(s.key_values, "NoData"),
                    dstSRS |-> s.utm_code]

\* f overwritten and extended by g
Overlay(f, g) ==
    [p \in DOMAIN f \cup DOMAIN g |-> IF p \in DOMAIN g THEN g[p] ELSE f[p]]

\* the runs of other instances whose scratch files are among paths
Others(r, paths) ==
    {o \in Instances \ {r} :
        /\ Running(o)
        /\ \E p \in paths \cap DOMAIN files : files[p].by = o}

\* shutil.rmtree(tp, ignore_errors = True)
rmtree_dirs(tp)  == {d \in dirs : d # tp /\ ~Under(d, tp)}
rmtree_files(tp) == [p \in {q \in DOMAIN files : ~Under(q, tp)} |-> files[p]]

(***************************************************************************)
(* archive_to_geotiff (lines 240-255) and archive_to_npy (lines 260-283).  *)
(* A call is cut where it touches the file system: the entry with the      *)
(* whole of __preparation, the warp, the array save, the removal of the    *)
(* scratch directory.  An exception ends the call where it is raised.      *)
(***************************************************************************)
\* lines 247-250 as they would read without the test of the mode
geotiff_name_plain(s) == <<s.datetime, ".tif">>

\* lines 247-250
geotiff_name(s) ==
    IF s.biomes_instead_lst = TRUE THEN <<s.datetime, "_biomes.tif">>
    ELSE <<s.datetime, ".tif">>

\* lines 272-275
npy_name(s) ==
    IF s.biomes_instead_lst = TRUE THEN <<s.datetime, "_biomes.npy">>
    ELSE <<s.datetime, ".npy">>

\* lines 267-268: the intermediate GeoTIFF of archive_to_npy
npy_geotiff_path(s, save_path) == s.temporary_path \o <<<<s.datetime, ".tif">>>>

\* the call ends by an exception: nothing after the raising line runs
Raise(r, e) ==
    /\ pc' = [pc EXCEPT ![r] = "idle"]
    /\ local' = [local EXCEPT ![r].status = "raised", ![r].err = Some(e)]
    /\ calls' = [calls EXCEPT ![r] = @ + 1]

\* lines 241-245 and 261-265: set the mode, make save_path, run __preparation
enter(r, mode, save_path, flag, fault) ==
    LET s  == [self[r] EXCEPT !.biomes_instead_lst = flag]
        e  == prep_error(zip[s.file_path], fault)
        w  == prep_writes(r, s, zip[s.file_path], fault)
        l0 == [NoLocal EXCEPT !.mode = Some(mode), !.flag = Some(flag),
                              !.save_path = save_path, !.fault = Some(fault)]
    IN  /\ pc[r] = "idle"
        /\ self' = [self EXCEPT ![r] = s]
        /\ dirs' = dirs \cup {save_path, s.temporary_path}
        /\ files' = Overlay(files, w)
        /\ foreign' = foreign \cup {<<"overwrite", r, o>> : o \in Others(r, DOMAIN w)}
        /\ IF e = None
           THEN /\ pc' = [pc EXCEPT ![r] = "warp"]
                /\ local' = [local EXCEPT ![r] =
                               [l0 EXCEPT !.status = "running",
                                          !.warpOptions = Some(warp_options(s)),
                                          !.imageVRTPath = Some(imageVRTPath(s))]]
                /\ UNCHANGED calls
           ELSE /\ pc' = [pc EXCEPT ![r] = "idle"]
                /\ local' = [local EXCEPT ![r] =
                               [l0 EXCEPT !.status = "raised", !.err = e]]
                /\ calls' = [calls EXCEPT ![r] = @ + 1]
        /\ UNCHANGED zip
        /\ UNCHANGED arrayVars

archive_to_geotiff(r, save_path, flag, fault) ==
    enter(r, "geotiff", save_path, flag, fault)

archive_to_npy(r, save_path, flag, fault) ==
    enter(r, "npy", save_path, flag, fault)

\* the sources gdal.Warp reads through image.vrt
WarpSources(s) == {imageVRTPath(s), imagePath(s), latPath(s), lonPath(s)}

\* gdal.Warp(dest, imageVRTPath, dstNodata = ..., options = warpOptions):
\* engine is "ok", "none" (the call returns None) or "raise"; it cannot be
\* "ok" when a source file is gone.  Lines 252 and 269.
warp(r, dest, engine, next) ==
    LET s   == self[r]
        src == files[imagePath(s)]
        out == Content(r, src.src, src.grid,
                       Get(s.key_values, "NoData"))
    IN  /\ pc[r] = "warp"
        /\ engine = "ok" => WarpSources(s) \subseteq DOMAIN files
        /\ CASE engine = "ok" ->
                  /\ files' = Overlay(files, [p \in {dest} |-> out])
                  /\ foreign' = foreign \cup
                        {<<"read", r, o>> : o \in {src.by} \ {r}}
                  /\ pc' = [pc EXCEPT ![r] = next]
                  /\ local' = [local EXCEPT
                        ![r].raster = Some(out),
                        ![r].wrote = IF Under(dest, local[r].save_path)
                                     THEN @ \cup {[path |-> dest, grid |-> out.grid]}
                                     ELSE @]
                  /\ UNCHANGED calls
             [] engine = "none" ->
                  /\ pc' = [pc EXCEPT ![r] = next]
                  /\ UNCHANGED <<files, foreign, local, calls>>
             [] OTHER ->
                  /\ Raise(r, [type |-> "RuntimeError", names |-> None])
                  /\ UNCHANGED <<files, foreign>>
        /\ UNCHANGED <<self, zip, dirs>>
        /\ UNCHANGED arrayVars

\* lines 247-252
geotiff_warp(r, engine) ==
    /\ local[r].mode = Some("geotiff")
    /\ warp(r, local[r].save_path \o <<geotiff_name(self[r])>>, engine, "rmtree")

\* lines 267-269
npy_warp(r, engine) ==
    /\ local[r].mode = Some("npy")
    /\ warp(r, npy_geotiff_path(self[r], local[r].save_path), engine, "save")

\* lines 272-279: raster.ReadAsArray() and np.save(npy_path, matrix)
npy_save(r, ok) ==
    LET s    == self[r]
        dest == local[r].save_path \o <<npy_name(s)>>
    IN  /\ pc[r] = "save"
        /\ IF local[r].raster = None
           THEN /\ Raise(r, [type |-> "AttributeError", names |-> None])
                /\ UNCHANGED files
           ELSE IF ~ok
           THEN /\ Raise(r, [type |-> "OSError", names |-> None])
                /\ UNCHANGED files
           ELSE /\ files' = Overlay(files, [p \in {dest} |-> Value(local[r].raster)])
                /\ pc' = [pc EXCEPT ![r] = "rmtree"]
                /\ local' = [local EXCEPT ![r].wrote =
                      @ \cup {[path |-> dest, grid |-> Value(local[r].raster).grid]}]
                /\ UNCHANGED calls
        /\ UNCHANGED <<self, zip, dirs, foreign>>
        /\ UNCHANGED arrayVars

\* lines 255 and 283: shutil.rmtree(self.temporary_path, ignore_errors = True)
remove_temporary(r) ==
    LET tp == self[r].temporary_path
    IN  /\ pc[r] = "rmtree"
        /\ dirs' = rmtree_dirs(tp)
        /\ files' = rmtree_files(tp)
        /\ foreign' = foreign \cup
              {<<"delete", r, o>> :
                  o \in Others(r, {p \in DOMAIN files : Under(p, tp)})}
        /\ pc' = [pc EXCEPT ![r] = "idle"]
        /\ local' = [local EXCEPT ![r].status = "returned"]
        /\ calls' = [calls EXCEPT ![r] = @ + 1]
        /\ UNCHANGED <<self, zip>>
        /\ UNCHANGED arrayVars

(***************************************************************************)
(* The life cycle as a state machine.                                      *)
(***************************************************************************)
\* the array variables while only the life cycle is studied
ArraysOff ==
    /\ extent = ScenarioExtent /\ utm_code = None /\ nc = ClearNc
    /\ biomes_instead_lst = None /\ prep = NoPrep /\ stage = "off"

\* the archive directories exist, the destination directory does not yet
FsStart ==
    /\ dirs = {<<Name("d1")>>, <<Name("d2")>>}
    /\ files = <<>>
    /\ local = [r \in Instances |-> NoLocal]
    /\ calls = [r \in Instances |-> 0]
    /\ foreign = {}

\* two instances over different archives, in the same directory or not, with
\* the default key_values
Init ==
    /\ \E x \in {Archive2, Archive3} :
          self = [r \in Instances |->
                    IF r = "a" THEN S3_L2_LST(Archive1, ScenarioExtent, DefaultKeyValues)
                    ELSE S3_L2_LST(x, ScenarioExtent, DefaultKeyValues)]
    /\ zip = [y \in Archives |-> Suffixes]
    /\ pc = [r \in Instances |-> "idle"]
    /\ FsStart /\ ArraysOff

\* one instance, with any of the key_values, over an archive that is complete
\* or lacks a member; the other instance is not constructed
InitSeq ==
    /\ \E kv \in KeyValueChoices :
          self = [r \in Instances |->
                    IF r = "a" THEN S3_L2_LST(Archive1, ScenarioExtent, kv)
                    ELSE None]
    /\ \E m \in MemberSets :
          zip = [y \in Archives |-> IF y = Archive1 THEN m ELSE Suffixes]
    /\ pc = [r \in Instances |-> IF r = "a" THEN "idle" ELSE "new"]
    /\ FsStart /\ ArraysOff

WarpResults == {"ok", "none", "raise"}

\* the steps of a call that is under way
Continue ==
    \/ \E r \in Instances, engine \in WarpResults : geotiff_warp(r, engine)
    \/ \E r \in Instances, engine \in WarpResults : npy_warp(r, engine)
    \/ \E r \in Instances, ok \in BOOLEAN : npy_save(r, ok)
    \/ \E r \in Instances : remove_temporary(r)

\* the caller runs the instances in parallel
Next ==
    \/ \E r \in Instances, sp \in SavePaths, flag \in BOOLEAN, fault \in PrepFaults :
          calls[r] < MaxParallelCalls /\ archive_to_geotiff(r, sp, flag, fault)
    \/ \E r \in Instances, sp \in SavePaths, flag \in BOOLEAN, fault \in PrepFaults :
          calls[r] < MaxParallelCalls /\ archive_to_npy(r, sp, flag, fault)
    \/ Continue

\* the caller starts a call only when no other call is under way
Quiet(r) == \A o \in Instances \ {r} : ~Running(o)

NextSeq ==
    \/ \E r \in Instances, sp \in SavePaths, flag \in BOOLEAN, fault \in PrepFaults :
          Quiet(r) /\ calls[r] < MaxCalls /\ archive_to_geotiff(r, sp, flag, fault)
    \/ \E r \in Instances, sp \in SavePaths, flag \in BOOLEAN, fault \in PrepFaults :
          Quiet(r) /\ calls[r] < MaxCalls /\ archive_to_npy(r, sp, flag, fault)
    \/ Continue

Spec    == Init /\ [][Next]_vars
SpecSeq == InitSeq /\ [][NextSeq]_vars

(***************************************************************************)
(* Properties of the life cycle.                                           *)
(***************************************************************************)
Ended(r) == pc[r] = "idle" /\ local[r].status \in {"returned", "raised"}

\* C3 as stated: no run ends with its scratch directory still present,
\* whether it succeeds or fails.
C3_ScratchRemoved ==
    \A r \in Instances :
        (Ended(r) /\ Quiet(r)) => self[r].temporary_path \notin dirs

\* C4 as stated: runs over different archives never share a scratch
\* directory, and none reads, overwrites or deletes an intermediate file of
\* another.
C4_NoSharedScratch ==
    /\ foreign = {}
    /\ \A r, o \in Instances :
          (r # o /\ Running(r) /\ Running(o)
                 /\ self[r].file_path # self[o].file_path)
              => self[r].temporary_path # self[o].temporary_path

\* the member an archive lacks, when it lacks exactly one
LacksOne(members) == Cardinality(Suffixes \ members) = 1
Missing(members) == CHOOSE m \in Suffixes : m \notin members

\* C8 as stated: a run over an archive lacking one expected member (nothing
\* else failing) is aborted with an error that is not an unbound-variable
\* reference and names the missing member, and writes no output file.
C8_MissingMember ==
    \A r \in Instances :
        (Ended(r) /\ local[r].fault = Some("none")
                  /\ LacksOne(zip[self[r].file_path]))
            => /\ local[r].status = "raised"
               /\ Value(local[r].err).type # "UnboundLocalError"
               /\ Value(local[r].err).names = Some(Missing(zip[self[r].file_path]))
               /\ local[r].wrote = {}

\* C9 as stated: the no-data value handed to the warp engine is the noData
\* sentinel of the policy: -32768 by default, the caller's value when the
\* caller's policy has the keys gap, skip, noData; never None.
C9_NoData ==
    \A r \in Instances :
        Running(r) =>
            LET kv  == self[r].key_values
                dst == Value(local[r].warpOptions).dstNodata
            IN  /\ dst # None
                /\ (kv = DefaultKeyValues => dst = Some(-32768))
                /\ ("noData" \in DOMAIN kv => dst = Some(kv["noData"]))

Succeeded(r) == Ended(r) /\ local[r].status = "returned" /\ local[r].raster # None

\* the file name the call's own mode and flag ask for
ExpectedName(r) ==
    <<self[r].datetime,
      CASE local[r].mode = Some("geotiff") /\ local[r].flag = Some(TRUE)  -> "_biomes.tif"
        [] local[r].mode = Some("geotiff") /\ local[r].flag = Some(FALSE) -> ".tif"
        [] local[r].mode = Some("npy") /\ local[r].flag = Some(TRUE)      -> "_biomes.npy"
        [] OTHER                                                          -> ".npy">>

\* C10: every successful call of a sequence of calls on one instance writes
\* exactly one file into its destination directory, named after its own mode
\* and flag, holding the biome grid iff the name has _biomes; a call in
\* array-dump mode writes no GeoTIFF there.
C10_OneArtifact ==
    \A r \in Instances :
        Succeeded(r) =>
            /\ Cardinality(local[r].wrote) = 1
            /\ \A w \in local[r].wrote :
                  /\ w.path = local[r].save_path \o <<ExpectedName(r)>>
                  /\ w.path \in DOMAIN files
                  /\ (w.grid = "biome") <=> (local[r].flag = Some(TRUE))
                  /\ (w.grid = "biome") <=> (files[w.path].grid = "biome")

\* after its third call, an array dump of the biome grid, the instance has
\* left an LST GeoTIFF and a biome array dump in the destination directory,
\* and the scratch directory with the intermediate GeoTIFF is gone
C10_Witness ==
    /\ Succeeded("a") /\ calls["a"] = 3
    /\ local["a"].mode = Some("npy") /\ local["a"].flag = Some(TRUE)
    /\ (<<Name("out"), <<self["a"].datetime, ".tif">>>>) \in DOMAIN files
    /\ files[<<Name("out"), <<self["a"].datetime, ".tif">>>>].grid = "LST"
    /\ (<<Name("out"), <<self["a"].datetime, "_biomes.npy">>>>) \in DOMAIN files
    /\ files[<<Name("out"), <<self["a"].datetime, "_biomes.npy">>>>].grid = "biome"
    /\ self["a"].temporary_path \notin dirs

====
